---- MODULE Spec2Model ----
(***************************************************************************)
(* Stake accounting of a DPoS validator (BaldyAsh/dpos).                   *)
(*                                                                         *)
(* The repository holds several drafts of the same ledger.  They are       *)
(* modelled here side by side:                                             *)
(*   Spec        src/src/validator.rs  (signatures, settlement channel)    *)
(*   SpecLedger  src/src/old_impl.rs  (the epoch ledger without signatures *)
(*               and settlement: try_withdraw_with_rewards), every input,  *)
(*               the first reward indexes                                  *)
(*   SpecCatchUp src/src/old_impl.rs  again, one stake followed over more  *)
(*               than INDEX_MAX_DELTA reward indexes                       *)
(*   SpecSettle  src/src/validator.rs  with the wait for the chain's       *)
(*               answer as a step of its own                               *)
(*   SpecSlot    src/src/new_impl.rs  (one Vote per user: vote,            *)
(*               send_rewards, unvote)                                     *)
(*                                                                         *)
(* Conventions.                                                            *)
(*  - A HashMap is a function whose DOMAIN is the set of inserted keys.    *)
(*  - `map.get(k)?` leaves the function at that point when k is absent:    *)
(*    everything assigned before it stays assigned, nothing after it runs. *)
(*  - Unsigned subtraction below zero panics when the build has overflow   *)
(*    checks and wraps otherwise; overflow_checks is the build's choice.   *)
(*    A wrapped value 2^w + n (n < 0) is written as the negative n.        *)
(*  - `last` records the most recent call: its arguments, how it ended,    *)
(*    what it returned, the transfer it requested and the number of        *)
(*    reward indexes its loop visited.                                     *)
(***************************************************************************)
EXTENDS Integers, Sequences, FiniteSets, TLC

VARIABLES
    total_balance,          \* validator.rs:33
    total_owner_reward,     \* validator.rs:35
    current_index,          \* validator.rs:37
    total_support,          \* validator.rs:39   Index -> Value
    reward,                 \* validator.rs:41   Index -> Value
    user_support,           \* validator.rs:43   Hash  -> Value
    user_support_indexes,   \* validator.rs:45   Address -> Vec<Index>
    balance,                \* old_impl.rs:26    User.balance, by address
    votes,                  \* new_impl.rs:25    Address -> Vote
    total_delegated,        \* new_impl.rs:27
    rewards_count,          \* new_impl.rs:31
    reward_to_share,        \* new_impl.rs:34
    overflow_checks,        \* build profile: TRUE panics on overflow
    last                    \* the most recent call and its outcome

ledger == <<total_balance, total_owner_reward, current_index, total_support,
            reward, user_support, user_support_indexes>>

\* the fields only the single-slot draft (new_impl.rs) has
slot == <<votes, total_delegated, rewards_count, reward_to_share>>

vars == <<total_balance, total_owner_reward, current_index, total_support,
          reward, user_support, user_support_indexes, balance,
          votes, total_delegated, rewards_count, reward_to_share,
          overflow_checks, last>>

----------------------------------------------------------------------------
(* Bounds of the exploration *)

NumUsers == 2
MaxAmount == 2
MaxBalance == 6
MaxOwnerReward == 6

(* Program constants *)

INDEX_MAX_DELTA == 1000

Users == 1..NumUsers
VoteAmounts == 1..MaxAmount
WithdrawAmounts == 0..MaxAmount
\* rewards whose owner share is a whole number (10) and is not (5)
Rewards == {5, 10}
\* the chain confirms; the chain answers with an error; the reply channel
\* is dropped before an answer
TransferOutcomes == {"confirmed", "rejected", "dropped"}

----------------------------------------------------------------------------
(* HashMap helpers *)

EmptyMap == [k \in {} |-> 0]

\* HashMap::insert: the entry at k is set, the others are kept
Put(m, k, v) == (k :> v) @@ m

Has(m, k) == k \in DOMAIN m

Max(a, b) == IF a >= b THEN a ELSE b

\* unsigned comparison of values that may be wrapped (negative = wrapped)
LeU(a, b) ==
    IF a >= 0 /\ b >= 0 THEN a <= b
    ELSE IF a < 0 /\ b < 0 THEN a <= b
    ELSE b < 0

\* amount * VALIDATOR_SHARE, VALIDATOR_SHARE = 0.3, as a Value
ValidatorShare(amount) == (amount * 3) \div 10

\* Vec::dedup: drops consecutive repeated elements
RECURSIVE dedup(_)
dedup(v) ==
    IF Len(v) <= 1 THEN v
    ELSE IF v[1] = v[2] THEN dedup(Tail(v))
    ELSE <<v[1]>> \o dedup(Tail(v))

\* the vector without every occurrence of x
RECURSIVE remove(_, _)
remove(v, x) ==
    IF v = <<>> THEN <<>>
    ELSE IF Head(v) = x THEN remove(Tail(v), x)
    ELSE <<Head(v)>> \o remove(Tail(v), x)

\* validator.rs: hasher.hash_bits(index bits ++ address bits); the hasher
\* is an injected capability, taken to be collision free
hash_bits(index, address) == <<index, address>>

----------------------------------------------------------------------------
(* The ledger as a value, and call records *)

Self ==
    [total_balance |-> total_balance,
     total_owner_reward |-> total_owner_reward,
     current_index |-> current_index,
     total_support |-> total_support,
     reward |-> reward,
     user_support |-> user_support,
     user_support_indexes |-> user_support_indexes,
     balance |-> balance]

\* chain is the answer the settlement channel gives if it is asked
Call(op, user, from_index, amount, signature, chain) ==
    [op |-> op, user |-> user, from_index |-> from_index, amount |-> amount,
     signature |-> signature, chain |-> chain]

\* how a call ended: status is "Ok", "Err" (an error value is returned) or
\* "Panic"; err names the statement that ended it; ret is <<>> for () and
\* None and <<index, value>> for a pair; transfer is the sequence of
\* transfers requested from the chain; visited is the number of loop
\* iterations started
Outcome(s, call, status, err, ret, transfer, visited) ==
    [s |-> s,
     out |-> [op |-> call.op, user |-> call.user,
              from_index |-> call.from_index, amount |-> call.amount,
              signature |-> call.signature, chain |-> call.chain,
              status |-> status, err |-> err,
              ret |-> ret, transfer |-> transfer, visited |-> visited]]

Transfer(src, dst, amount) == <<[src |-> src, dst |-> dst, amount |-> amount]>>

Commit(r) ==
    /\ total_balance' = r.s.total_balance
    /\ total_owner_reward' = r.s.total_owner_reward
    /\ current_index' = r.s.current_index
    /\ total_support' = r.s.total_support
    /\ reward' = r.s.reward
    /\ user_support' = r.s.user_support
    /\ user_support_indexes' = r.s.user_support_indexes
    /\ balance' = r.s.balance
    /\ last' = r.out
    /\ UNCHANGED <<slot, overflow_checks>>

----------------------------------------------------------------------------
(* src/src/validator.rs *)

\* Validator::create
create ==
    [total_balance |-> 0,
     total_owner_reward |-> 0,
     current_index |-> 0,
     total_support |-> EmptyMap,
     reward |-> EmptyMap,
     user_support |-> EmptyMap,
     user_support_indexes |-> EmptyMap,
     balance |-> EmptyMap]

NoCall ==
    [op |-> "create", user |-> 0, from_index |-> 0, amount |-> 0,
     signature |-> TRUE, chain |-> "confirmed", status |-> "Ok",
     err |-> "", ret |-> <<>>,
     transfer |-> <<>>, visited |-> 0]

\* a vote that books the amount before the settlement answers
vote_books_first(s, user_address, amount, signature, transfer) ==
    LET call == Call("vote", user_address, 0, amount, signature, transfer)
        req == Transfer("user", "validator", amount)
        s1 == [s EXCEPT !.total_balance = @ + amount]
    IN  IF ~signature
        THEN Outcome(s, call, "Err", "verify_signature", <<>>, <<>>, 0)
        ELSE IF transfer = "dropped"
        THEN Outcome(s1, call, "Err", "Transfer failed", <<>>, req, 0)
        ELSE IF transfer = "rejected"
        THEN Outcome(s1, call, "Panic", "unwrap", <<>>, req, 0)
        ELSE Outcome(s1, call, "Err", "total_support.get", <<>>, req, 0)

\* Validator::vote
vote(s, user_address, amount, signature, transfer) ==
    LET call == Call("vote", user_address, 0, amount, signature, transfer)
        req == Transfer("user", "validator", amount)
        cur == s.current_index
        hash == hash_bits(cur, user_address)
        s1 == [s EXCEPT !.total_balance = @ + amount]
        s2 == [s1 EXCEPT !.total_support =
                  Put(@, cur, s.total_support[cur] + amount)]
        update == s.user_support[hash] + amount
        olduser == IF Has(s.user_support_indexes, user_address)
                   THEN s.user_support_indexes[user_address] ELSE <<>>
        s3 == [s2 EXCEPT !.user_support = Put(@, hash, update),
                         !.user_support_indexes =
                             Put(@, user_address,
                                 dedup(Append(olduser, cur)))]
    IN  IF ~signature
        THEN Outcome(s, call, "Err", "verify_signature", <<>>, <<>>, 0)
        ELSE IF transfer = "dropped"
        THEN Outcome(s, call, "Err", "Transfer failed", <<>>, req, 0)
        ELSE IF transfer = "rejected"
        THEN Outcome(s, call, "Panic", "unwrap", <<>>, req, 0)
        ELSE IF ~Has(s.total_support, cur)
        THEN Outcome(s1, call, "Err", "total_support.get", <<>>, req, 0)
        ELSE IF ~Has(s.user_support, hash)
        THEN Outcome(s2, call, "Err", "user_support.get", <<>>, req, 0)
        ELSE Outcome(s3, call, "Ok", "", <<cur, update>>, req, 0)

\* Validator::new_reward
new_reward(s, amount) ==
    LET call == Call("new_reward", 0, 0, amount, TRUE, "confirmed")
        cur == s.current_index
        s1 == [s EXCEPT !.total_owner_reward = @ + ValidatorShare(amount)]
        s2 == [s1 EXCEPT !.total_support = Put(@, cur + 1, s.total_support[cur]),
                         !.current_index = cur + 1,
                         !.total_balance = @ + amount]
    IN  IF ~Has(s.total_support, cur)
        THEN Outcome(s1, call, "Err", "total_support.get", <<>>, <<>>, 0)
        ELSE Outcome(s2, call, "Ok", "", <<>>, <<>>, 0)

\* one iteration's addition to reward (validator.rs:200-201)
reward_term(s, amount, i) ==
    (s.reward[i] * 7 * (amount \div s.total_support[i])) \div 10

\* the additions of the iterations lo..hi, halving the range
RECURSIVE reward_sum(_, _, _, _)
reward_sum(s, amount, lo, hi) ==
    IF lo > hi THEN 0
    ELSE IF lo = hi THEN reward_term(s, amount, lo)
    ELSE LET mid == (lo + hi) \div 2
         IN  reward_sum(s, amount, lo, mid) + reward_sum(s, amount, mid + 1, hi)

\* whether the iteration at index i leaves the loop: an absent
\* total_support or reward entry, or a division by a total_support of 0
leaves_loop(s, i) ==
    \/ ~Has(s.total_support, i)
    \/ s.total_support[i] = 0
    \/ ~Has(s.reward, i)

\* the first index of lo..hi whose iteration leaves the loop, hi + 1 when
\* none does, halving the range
RECURSIVE first_leaving(_, _, _)
first_leaving(s, lo, hi) ==
    IF lo > hi THEN hi + 1
    ELSE IF lo = hi THEN (IF leaves_loop(s, lo) THEN lo ELSE hi + 1)
    ELSE LET mid == (lo + hi) \div 2
             left == first_leaving(s, lo, mid)
         IN  IF left <= mid THEN left ELSE first_leaving(s, mid + 1, hi)

\* the reward loop of user_withdraw_amount_with_reward (validator.rs:199-202):
\* `for i in from_index..end_index`; visited counts the iterations started
accumulate(s, amount, from_index, end_index) ==
    LET i == first_leaving(s, from_index, end_index - 1)
    IN  IF i >= end_index
        THEN [status |-> "Ok", err |-> "",
              reward |-> reward_sum(s, amount, from_index, end_index - 1),
              visited |-> Max(end_index - from_index, 0)]
        ELSE [status |-> IF Has(s.total_support, i) /\ s.total_support[i] = 0
                         THEN "Panic" ELSE "Err",
              err |-> IF ~Has(s.total_support, i) THEN "total_support.get"
                      ELSE IF s.total_support[i] = 0 THEN "divide by zero"
                      ELSE "reward.get",
              reward |-> reward_sum(s, amount, from_index, i - 1),
              visited |-> i - from_index + 1]

\* a - b on unsigned values underflows
Underflows(a, b) == a >= 0 /\ a < b

\* Validator::user_withdraw_amount_with_reward
user_withdraw_amount_with_reward(s, user_address, from_index, amount, signature, transfer, checks) ==
    LET call == Call("user_withdraw", user_address, from_index, amount,
                     signature, transfer)
        hash == hash_bits(from_index, user_address)
        supported == s.user_support[hash]
        max_index == from_index + INDEX_MAX_DELTA
        end_index == Max(max_index, s.current_index)
        loop == accumulate(s, amount, from_index, end_index)
        rew == loop.reward
        n == loop.visited
        \* lines 204-208
        s1 == [s EXCEPT !.user_support = Put(@, hash, supported - amount),
                        !.user_support_indexes =
                            IF supported = amount /\ Has(@, user_address)
                            THEN Put(@, user_address,
                                     remove(@[user_address], from_index))
                            ELSE @]
        \* lines 212-218
        hash2 == hash_bits(end_index, user_address)
        new_balance == s1.user_support[hash2] + amount
        s2 == [s1 EXCEPT !.user_support = Put(@, hash2, new_balance)]
        s3 == [s2 EXCEPT !.total_balance = @ - rew]
        req3 == Transfer("validator", "user", rew)
        \* line 242
        s4 == [s1 EXCEPT !.total_balance = @ - (amount + rew)]
        req4 == Transfer("validator", "user", amount + rew)
    IN  IF ~signature
        THEN Outcome(s, call, "Err", "verify_signature", <<>>, <<>>, 0)
        ELSE IF ~Has(s.user_support, hash)
        THEN Outcome(s, call, "Err", "user_support.get", <<>>, <<>>, 0)
        ELSE IF ~LeU(amount, supported)
        THEN Outcome(s, call, "Err", "Wrong amount", <<>>, <<>>, 0)
        ELSE IF loop.status # "Ok"
        THEN Outcome(s, call, loop.status, loop.err, <<>>, <<>>, n)
        ELSE IF end_index < s.current_index
        THEN IF ~Has(s1.user_support, hash2)
             THEN Outcome(s1, call, "Err", "user_support.get", <<>>, <<>>, n)
             ELSE IF checks /\ Underflows(s2.total_balance, rew)
             THEN Outcome(s2, call, "Panic", "overflow", <<>>, <<>>, n)
             ELSE IF transfer = "dropped"
             THEN Outcome(s3, call, "Err", "Transfer failed", <<>>, req3, n)
             ELSE IF transfer = "rejected"
             THEN Outcome(s3, call, "Panic", "unwrap", <<>>, req3, n)
             ELSE Outcome(s3, call, "Ok", "", <<end_index, new_balance>>, req3, n)
        ELSE IF checks /\ Underflows(s1.total_balance, amount + rew)
             THEN Outcome(s1, call, "Panic", "overflow", <<>>, <<>>, n)
             ELSE IF transfer = "dropped"
             THEN Outcome(s4, call, "Err", "Transfer failed", <<>>, req4, n)
             ELSE IF transfer = "rejected"
             THEN Outcome(s4, call, "Panic", "unwrap", <<>>, req4, n)
             ELSE Outcome(s4, call, "Ok", "", <<>>, req4, n)

\* an owner withdrawal that does not compare amount with total_owner_reward
owner_withdraw_unchecked(s, amount, signature, transfer, checks) ==
    LET call == Call("owner_withdraw", 0, 0, amount, signature, transfer)
        s2 == [s EXCEPT !.total_owner_reward = @ - amount,
                        !.total_balance = @ - amount]
        req == Transfer("validator", "owner", amount)
    IN  IF ~signature
        THEN Outcome(s, call, "Err", "verify_signature", <<>>, <<>>, 0)
        ELSE IF transfer = "dropped"
        THEN Outcome(s2, call, "Err", "Transfer failed", <<>>, req, 0)
        ELSE IF transfer = "rejected"
        THEN Outcome(s2, call, "Panic", "unwrap", <<>>, req, 0)
        ELSE Outcome(s2, call, "Ok", "", <<>>, req, 0)

\* Validator::owner_withdraw_reward
owner_withdraw_reward(s, amount, signature, transfer, checks) ==
    LET call == Call("owner_withdraw", 0, 0, amount, signature, transfer)
        s1 == [s EXCEPT !.total_owner_reward = @ - amount]
        s2 == [s1 EXCEPT !.total_balance = @ - amount]
        req == Transfer("validator", "owner", amount)
    IN  IF ~(s.total_owner_reward >= amount)
        THEN Outcome(s, call, "Err", "Insufficient funds", <<>>, <<>>, 0)
        ELSE IF ~signature
        THEN Outcome(s, call, "Err", "verify_signature", <<>>, <<>>, 0)
        ELSE IF checks /\ Underflows(s1.total_balance, amount)
        THEN Outcome(s1, call, "Panic", "overflow", <<>>, <<>>, 0)
        ELSE IF transfer = "dropped"
        THEN Outcome(s2, call, "Err", "Transfer failed", <<>>, req, 0)
        ELSE IF transfer = "rejected"
        THEN Outcome(s2, call, "Panic", "unwrap", <<>>, req, 0)
        ELSE Outcome(s2, call, "Ok", "", <<>>, req, 0)

----------------------------------------------------------------------------
(* The validator.rs state machine *)

OwnerAmounts == 0..(MaxAmount + 1)
\* indexes a withdrawal is asked to start from
FromIndexes == 0..1

Init ==
    /\ total_balance = create.total_balance
    /\ total_owner_reward = create.total_owner_reward
    /\ current_index = create.current_index
    /\ total_support = create.total_support
    /\ reward = create.reward
    /\ user_support = create.user_support
    /\ user_support_indexes = create.user_support_indexes
    /\ balance = create.balance
    /\ votes = EmptyMap /\ total_delegated = 0
    /\ rewards_count = 0 /\ reward_to_share = 0
    /\ overflow_checks \in BOOLEAN
    /\ last = NoCall

Vote ==
    \E u \in Users, a \in VoteAmounts, sig \in BOOLEAN, t \in TransferOutcomes :
        /\ total_balance + a <= MaxBalance
        /\ Commit(vote(Self, u, a, sig, t))

NewReward ==
    \E a \in Rewards :
        /\ total_owner_reward + ValidatorShare(a) <= MaxOwnerReward
        /\ Commit(new_reward(Self, a))

UserWithdraw ==
    \E u \in Users, i \in FromIndexes, a \in WithdrawAmounts,
       sig \in BOOLEAN, t \in TransferOutcomes :
        Commit(user_withdraw_amount_with_reward(Self, u, i, a, sig, t,
                                                overflow_checks))

OwnerWithdraw ==
    \E a \in OwnerAmounts, sig \in BOOLEAN, t \in TransferOutcomes :
        \* a wrapping build is followed MaxBalance below zero at most
        /\ total_balance - a >= 0 - MaxBalance
        /\ Commit(owner_withdraw_reward(Self, a, sig, t, overflow_checks))

Next == Vote \/ NewReward \/ UserWithdraw \/ OwnerWithdraw

Spec == Init /\ [][Next]_vars

----------------------------------------------------------------------------
(* validator.rs with the wait for the chain's answer as a step of its own.  *)
(* Every operation takes `&mut self` and waits in block_on(resp): the       *)
(* call keeps the exclusive borrow of the validator until it returns.       *)

\* a call is blocked in block_on
blocked == last.status = "Pending"

\* calls are let in without regard to the borrow
self_shared == TRUE

\* `&mut self` can be taken: no call is holding the validator
self_free == ~blocked

\* a call r that has sent its ChainRequest::Transfer and waits for the
\* answer, the ledger being `at`; ret keeps what it returns once confirmed
awaiting(r, at) ==
    [s |-> at,
     out |-> [r.out EXCEPT !.chain = "awaited", !.status = "Pending",
                           !.err = "block_on"]]

\* a call either ends before it asks the chain, or waits for the answer
begin(r, at) ==
    IF r.out.transfer = <<>> THEN Commit(r) ELSE Commit(awaiting(r, at))

\* `block_on(resp)?` and what follows it in the two withdrawals: the answer
\* decides the result, no ledger field is assigned after it
settled(answer) ==
    [s |-> Self,
     out |-> [last EXCEPT
                !.chain = answer,
                !.status = IF answer = "confirmed" THEN "Ok"
                           ELSE IF answer = "rejected" THEN "Panic" ELSE "Err",
                !.err = IF answer = "confirmed" THEN ""
                        ELSE IF answer = "rejected" THEN "unwrap"
                        ELSE "Transfer failed",
                !.ret = IF answer = "confirmed" THEN @ ELSE <<>>]]

\* vote up to block_on (validator.rs:91-115): nothing is assigned before it
VoteRequest ==
    \E u \in Users, a \in VoteAmounts, sig \in BOOLEAN :
        /\ self_free
        /\ total_balance + a <= MaxBalance
        /\ begin(vote(Self, u, a, sig, "confirmed"), Self)

\* vote from the answer on (validator.rs:109-131)
VoteSettled ==
    \E t \in TransferOutcomes :
        /\ blocked /\ last.op = "vote"
        /\ Commit(vote(Self, last.user, last.amount, last.signature, t))

NewRewardCall == self_free /\ NewReward

\* the withdrawals up to block_on: every assignment comes before it
\* (validator.rs:204-218, 242, 287-288)
UserWithdrawRequest ==
    \E u \in Users, i \in FromIndexes, a \in WithdrawAmounts, sig \in BOOLEAN :
        LET r == user_withdraw_amount_with_reward(Self, u, i, a, sig,
                                                  "confirmed", overflow_checks)
        IN  self_free /\ begin(r, r.s)

OwnerWithdrawRequest ==
    \E a \in OwnerAmounts, sig \in BOOLEAN :
        LET r == owner_withdraw_reward(Self, a, sig, "confirmed",
                                       overflow_checks)
        IN  /\ self_free
            /\ total_balance - a >= 0 - MaxBalance
            /\ begin(r, r.s)

\* a withdrawal from the answer on (validator.rs:231-239, 255-263, 302-308)
WithdrawSettled ==
    \E t \in TransferOutcomes :
        /\ blocked /\ last.op \in {"user_withdraw", "owner_withdraw"}
        /\ Commit(settled(t))

NextSettle ==
    \/ VoteRequest \/ VoteSettled \/ NewRewardCall
    \/ UserWithdrawRequest \/ OwnerWithdrawRequest \/ WithdrawSettled

SpecSettle == Init /\ [][NextSettle]_vars

----------------------------------------------------------------------------
(* src/src/old_impl.rs: the epoch ledger with direct balance updates *)

\* SpecLedger follows every call on the first indexes: votes while the
\* support recorded so far stays within MaxVoted, rewards up to index
\* MaxEarlyIndex
MaxVoted == 2
MaxEarlyIndex == 2
\* SpecCatchUp follows CatchUpUsers users who vote at index 0, up to
\* CatchUpAmount in all, MaxOverrun indexes past INDEX_MAX_DELTA
CatchUpUsers == 1
CatchUpAmount == 2
MaxOverrun == 1

MaxIndex == INDEX_MAX_DELTA + MaxOverrun
InitialBalance == MaxVoted
LedgerRewards == {10}

\* Hasher::hash
Hasher_hash(index, address) == index + address

\* Validator of old_impl.rs before any call, and the users' accounts
ledger_create == [create EXCEPT !.balance = [u \in Users |-> InitialBalance]]

\* Democracy::vote
Democracy_vote(s, user, amount, checks) ==
    LET call == Call("vote", user, 0, amount, TRUE, "confirmed")
        cur == s.current_index
        update_total == IF Has(s.total_support, cur)
                        THEN s.total_support[cur] + amount ELSE amount
        hash == Hasher_hash(cur, user)
        update == IF Has(s.user_support, hash)
                  THEN s.user_support[hash] + amount ELSE amount
        s1 == [s EXCEPT !.total_balance = @ + amount,
                        !.total_support = Put(@, cur, update_total),
                        !.user_support = Put(@, hash, update)]
        s2 == [s1 EXCEPT !.balance[user] = @ - amount]
    IN  IF checks /\ Underflows(s.balance[user], amount)
        THEN Outcome(s1, call, "Panic", "overflow", <<>>, <<>>, 0)
        ELSE Outcome(s2, call, "Ok", "", <<cur, update>>, <<>>, 0)

\* RewardSharing::append_reward
RewardSharing_append_reward(s, r) ==
    LET call == Call("append_reward", 0, 0, r, TRUE, "confirmed")
        cur == s.current_index
        copied == IF Has(s.total_support, cur) THEN s.total_support[cur] ELSE 0
    IN  Outcome([s EXCEPT !.total_support = Put(@, cur + 1, copied),
                          !.current_index = cur + 1,
                          !.total_balance = @ + r],
                call, "Ok", "", <<>>, <<>>, 0)

\* one iteration's addition to reward (old_impl.rs:124-125); SHARE = 0.3
ledger_reward_term(s, amount, i) ==
    ((IF Has(s.reward, i) THEN s.reward[i] ELSE 0) * 3
     * (amount \div s.total_support[i])) \div 1000

RECURSIVE ledger_reward_sum(_, _, _, _)
ledger_reward_sum(s, amount, lo, hi) ==
    IF lo > hi THEN 0
    ELSE IF lo = hi THEN ledger_reward_term(s, amount, lo)
    ELSE LET mid == (lo + hi) \div 2
         IN  ledger_reward_sum(s, amount, lo, mid)
             + ledger_reward_sum(s, amount, mid + 1, hi)

\* whether the iteration at index i leaves the loop: an absent
\* total_support entry (None is returned) or a division by 0
ledger_leaves_loop(s, i) ==
    \/ ~Has(s.total_support, i)
    \/ s.total_support[i] = 0

RECURSIVE ledger_first_leaving(_, _, _)
ledger_first_leaving(s, lo, hi) ==
    IF lo > hi THEN hi + 1
    ELSE IF lo = hi THEN (IF ledger_leaves_loop(s, lo) THEN lo ELSE hi + 1)
    ELSE LET mid == (lo + hi) \div 2
             left == ledger_first_leaving(s, lo, mid)
         IN  IF left <= mid THEN left ELSE ledger_first_leaving(s, mid + 1, hi)

\* the reward loop of try_withdraw_with_rewards (old_impl.rs:123-126):
\* `for i in from_index..end_index`; visited counts the iterations started
ledger_accumulate(s, amount, from_index, end_index) ==
    LET i == ledger_first_leaving(s, from_index, end_index - 1)
    IN  IF i >= end_index
        THEN [status |-> "Ok", err |-> "",
              reward |-> ledger_reward_sum(s, amount, from_index, end_index - 1),
              visited |-> Max(end_index - from_index, 0)]
        ELSE [status |-> IF Has(s.total_support, i) THEN "Panic" ELSE "None",
              err |-> IF Has(s.total_support, i) THEN "divide by zero"
                      ELSE "total_support.get",
              reward |-> ledger_reward_sum(s, amount, from_index, i - 1),
              visited |-> i - from_index + 1]

\* RewardSharing::try_withdraw_with_rewards
try_withdraw_with_rewards(s, user, from_index, amount, checks) ==
    LET call == Call("user_withdraw", user, from_index, amount, TRUE, "confirmed")
        hash == Hasher_hash(from_index, user)
        supported == s.user_support[hash]
        max_index == from_index + INDEX_MAX_DELTA
        end_index == Max(max_index, s.current_index)
        loop == ledger_accumulate(s, amount, from_index, end_index)
        rew == loop.reward
        n == loop.visited
        s1 == [s EXCEPT !.user_support = Put(@, hash, supported - amount)]
        hash2 == Hasher_hash(end_index, user)
        new_balance == IF Has(s1.user_support, hash2)
                       THEN s1.user_support[hash2] + amount ELSE amount
        s2 == [s1 EXCEPT !.user_support = Put(@, hash2, new_balance)]
        s3 == [s2 EXCEPT !.total_balance = @ - rew,
                         !.balance[user] = @ + rew]
        s4 == [s1 EXCEPT !.total_balance = @ - (amount + rew),
                         !.balance[user] = @ + (amount + rew)]
    IN  IF ~Has(s.user_support, hash)
        THEN Outcome(s, call, "Panic", "unwrap", <<>>, <<>>, 0)
        ELSE IF loop.status = "None"
        THEN Outcome(s, call, "Ok", loop.err, <<>>, <<>>, n)
        ELSE IF loop.status = "Panic"
        THEN Outcome(s, call, "Panic", loop.err, <<>>, <<>>, n)
        ELSE IF checks /\ Underflows(supported, amount)
        THEN Outcome(s, call, "Panic", "overflow", <<>>, <<>>, n)
        ELSE IF end_index < s.current_index
        THEN IF checks /\ Underflows(s2.total_balance, rew)
             THEN Outcome(s2, call, "Panic", "overflow", <<>>, <<>>, n)
             ELSE Outcome(s3, call, "Ok", "", <<end_index, new_balance>>, <<>>, n)
        ELSE IF checks /\ Underflows(s1.total_balance, amount + rew)
             THEN Outcome(s1, call, "Panic", "overflow", <<>>, <<>>, n)
             ELSE Outcome(s4, call, "Ok", "", <<>>, <<>>, n)

InitLedger ==
    /\ total_balance = ledger_create.total_balance
    /\ total_owner_reward = ledger_create.total_owner_reward
    /\ current_index = ledger_create.current_index
    /\ total_support = ledger_create.total_support
    /\ reward = ledger_create.reward
    /\ user_support = ledger_create.user_support
    /\ user_support_indexes = ledger_create.user_support_indexes
    /\ balance = ledger_create.balance
    /\ votes = EmptyMap /\ total_delegated = 0
    /\ rewards_count = 0 /\ reward_to_share = 0
    /\ overflow_checks \in BOOLEAN
    /\ last = NoCall

SupportSoFar ==
    IF Has(total_support, current_index) THEN total_support[current_index] ELSE 0

LedgerVote ==
    \E u \in Users, a \in VoteAmounts :
        /\ SupportSoFar + a <= MaxVoted
        /\ Commit(Democracy_vote(Self, u, a, overflow_checks))

LedgerAppendReward ==
    \E r \in LedgerRewards :
        /\ current_index < MaxEarlyIndex
        /\ Commit(RewardSharing_append_reward(Self, r))

LedgerWithdraw ==
    \E u \in Users, i \in 0..MaxEarlyIndex, a \in WithdrawAmounts :
        Commit(try_withdraw_with_rewards(Self, u, i, a, overflow_checks))

NextLedger == LedgerVote \/ LedgerAppendReward \/ LedgerWithdraw

SpecLedger == InitLedger /\ [][NextLedger]_vars

\* the same calls followed past INDEX_MAX_DELTA: votes at index 0, and
\* withdrawals of them from the index at which the reward loop no longer
\* runs past current_index
CatchUpVote ==
    \E u \in 1..CatchUpUsers, a \in 1..CatchUpAmount :
        /\ current_index = 0
        /\ SupportSoFar + a <= CatchUpAmount
        /\ Commit(Democracy_vote(Self, u, a, overflow_checks))

CatchUpAppendReward ==
    \E r \in LedgerRewards :
        /\ current_index < MaxIndex
        /\ Commit(RewardSharing_append_reward(Self, r))

CatchUpWithdraw ==
    \E u \in 1..CatchUpUsers, a \in 0..CatchUpAmount :
        /\ current_index + 1 >= INDEX_MAX_DELTA
        \* an entry that has wrapped is not withdrawn from again
        /\ Has(user_support, Hasher_hash(0, u))
               => user_support[Hasher_hash(0, u)] >= 0
        /\ Commit(try_withdraw_with_rewards(Self, u, 0, a, overflow_checks))

NextCatchUp == CatchUpVote \/ CatchUpAppendReward \/ CatchUpWithdraw

SpecCatchUp == InitLedger /\ [][NextCatchUp]_vars

----------------------------------------------------------------------------
(* src/src/new_impl.rs: one Vote per user *)

\* rewards appended in an exploration
MaxRewards == 2

\* two users: they meet in total_delegated only
SlotUsers == {1, 2}
\* amounts a user votes with; 0 is an amount a caller can pass
SlotAmounts == 0..MaxAmount
\* 700 is the smallest round reward that leaves a reward_to_share above 0
SlotRewards == {10, 700}

\* struct Vote
VoteOf(first_reward_id, amount, reward_taken) ==
    [first_reward_id |-> first_reward_id, amount |-> amount,
     reward_taken |-> reward_taken]

\* HashMap::remove
Without(m, k) == [x \in DOMAIN m \ {k} |-> m[x]]

\* the single-slot validator and the users' balances as a value
SlotSelf ==
    [votes |-> votes, total_delegated |-> total_delegated,
     total_balance |-> total_balance, rewards_count |-> rewards_count,
     reward_to_share |-> reward_to_share, balance |-> balance]

CommitSlot(r) ==
    /\ votes' = r.s.votes
    /\ total_delegated' = r.s.total_delegated
    /\ total_balance' = r.s.total_balance
    /\ rewards_count' = r.s.rewards_count
    /\ reward_to_share' = r.s.reward_to_share
    /\ balance' = r.s.balance
    /\ last' = r.out
    /\ UNCHANGED <<total_owner_reward, current_index, total_support, reward,
                   user_support, user_support_indexes, overflow_checks>>

\* <Validator as Democracy>::vote
slot_vote(s, user, amount, checks) ==
    LET call == Call("vote", user, 0, amount, TRUE, "confirmed")
        s1 == [s EXCEPT !.votes =
                  Put(@, user, VoteOf(s.rewards_count, amount, FALSE))]
        s2 == [s1 EXCEPT !.balance[user] = @ - amount,
                         !.total_delegated = @ + amount,
                         !.total_balance = @ + amount]
    IN  IF /\ Has(s.votes, user)
           /\ (s.votes[user].amount > 0 \/ ~s.votes[user].reward_taken)
        THEN Outcome(s, call, "Panic", "Get reward and unvote before revoting",
                     <<>>, <<>>, 0)
        ELSE IF checks /\ Underflows(s.balance[user], amount)
        THEN Outcome(s1, call, "Panic", "overflow", <<>>, <<>>, 0)
        ELSE Outcome(s2, call, "Ok", "", <<>>, <<>>, 0)

\* an unvote that does not ask whether the reward has been taken
unvote_any_time(s, user, checks) ==
    LET call == Call("unvote", user, 0, 0, TRUE, "confirmed")
    IN  IF ~Has(s.votes, user)
        THEN Outcome(s, call, "Panic", "Nothing to unvote", <<>>, <<>>, 0)
        ELSE Outcome([s EXCEPT !.balance[user] = @ + s.votes[user].amount,
                               !.total_delegated = @ - s.votes[user].amount,
                               !.total_balance = @ - s.votes[user].amount,
                               !.votes = Without(@, user)],
                     call, "Ok", "", <<>>, <<>>, 0)

\* <Validator as Democracy>::unvote
unvote(s, user, checks) ==
    LET call == Call("unvote", user, 0, 0, TRUE, "confirmed")
        amount == s.votes[user].amount
        s1 == [s EXCEPT !.balance[user] = @ + amount]
        s2 == [s1 EXCEPT !.total_delegated = @ - amount]
        s3 == [s2 EXCEPT !.total_balance = @ - amount]
        s4 == [s3 EXCEPT !.votes = Without(@, user)]
    IN  IF ~Has(s.votes, user)
        THEN Outcome(s, call, "Panic", "Nothing to unvote", <<>>, <<>>, 0)
        ELSE IF amount = 0 \/ ~s.votes[user].reward_taken
        THEN Outcome(s, call, "Panic", "Make sure that the vote exists",
                     <<>>, <<>>, 0)
        ELSE IF checks /\ Underflows(s.total_delegated, amount)
        THEN Outcome(s1, call, "Panic", "overflow", <<>>, <<>>, 0)
        ELSE IF checks /\ Underflows(s.total_balance, amount)
        THEN Outcome(s2, call, "Panic", "overflow", <<>>, <<>>, 0)
        ELSE Outcome(s4, call, "Ok", "", <<>>, <<>>, 0)

\* <Validator as RewardSharing>::append_reward; SHARE * medium / 100 with
\* SHARE = 0.3 (lib.rs:3), as an Amount
slot_append_reward(s, r) ==
    LET call == Call("append_reward", 0, 0, r, TRUE, "confirmed")
        medium == (s.reward_to_share + r) \div 2
    IN  Outcome([s EXCEPT !.total_balance = @ + r,
                          !.rewards_count = @ + 1,
                          !.reward_to_share = (3 * medium) \div 1000],
                call, "Ok", "", <<>>, <<>>, 0)

\* <Validator as RewardSharing>::send_rewards
send_rewards(s, user, checks) ==
    LET call == Call("send_rewards", user, 0, 0, TRUE, "confirmed")
        amount == s.votes[user].amount
        first_reward_id == s.votes[user].first_reward_id
        rewards_passed == s.rewards_count - first_reward_id
        r == (amount \div s.total_delegated) * rewards_passed
             * s.reward_to_share
        s1 == [s EXCEPT !.balance[user] = @ + r]
        s2 == [s1 EXCEPT !.total_balance = @ - r]
        s3 == [s2 EXCEPT !.votes = Put(@, user,
                                       VoteOf(first_reward_id, amount, TRUE))]
    IN  IF ~Has(s.votes, user)
        THEN Outcome(s, call, "Panic", "No vote to get rewards", <<>>, <<>>, 0)
        ELSE IF amount = 0 \/ s.votes[user].reward_taken
        THEN Outcome(s, call, "Panic", "Make sure that the vote exists",
                     <<>>, <<>>, 0)
        ELSE IF s.total_delegated = 0
        THEN Outcome(s, call, "Panic", "divide by zero", <<>>, <<>>, 0)
        ELSE IF checks /\ Underflows(s.total_balance, r)
        THEN Outcome(s1, call, "Panic", "overflow", <<>>, <<>>, 0)
        ELSE Outcome(s3, call, "Ok", "", <<>>, <<>>, 0)

InitSlot ==
    /\ total_balance = 0
    /\ votes = EmptyMap /\ total_delegated = 0
    /\ rewards_count = 0 /\ reward_to_share = 0
    /\ balance = [u \in SlotUsers |-> InitialBalance]
    /\ total_owner_reward = create.total_owner_reward
    /\ current_index = create.current_index
    /\ total_support = create.total_support
    /\ reward = create.reward
    /\ user_support = create.user_support
    /\ user_support_indexes = create.user_support_indexes
    /\ overflow_checks \in BOOLEAN
    /\ last = NoCall

SlotVote ==
    \E u \in SlotUsers, a \in SlotAmounts :
        \* a build with overflow checks aborts on a vote above the user's
        \* balance (new_impl.rs:67); the aborted process is not followed
        /\ overflow_checks => a <= balance[u]
        /\ CommitSlot(slot_vote(SlotSelf, u, a, overflow_checks))

SlotUnvote ==
    \E u \in SlotUsers : CommitSlot(unvote(SlotSelf, u, overflow_checks))

SlotAppendReward ==
    \E r \in SlotRewards :
        /\ rewards_count < MaxRewards
        /\ CommitSlot(slot_append_reward(SlotSelf, r))

SlotSendRewards ==
    \E u \in SlotUsers : CommitSlot(send_rewards(SlotSelf, u, overflow_checks))

NextSlot == SlotVote \/ SlotUnvote \/ SlotAppendReward \/ SlotSendRewards

SpecSlot == InitSlot /\ [][NextSlot]_vars

----------------------------------------------------------------------------
(* Claims *)

\* total of a map's values
RECURSIVE SumOver(_, _)
SumOver(m, keys) ==
    IF keys = {} THEN 0
    ELSE LET k == CHOOSE x \in keys : TRUE
         IN  m[k] + SumOver(m, keys \ {k})

\* the sum of all user_support entries
TotalDelegated == SumOver(user_support, DOMAIN user_support)

\* C1: after every step of vote, new_reward, user withdraw and owner
\* withdraw from a fresh validator, total_balance >= (sum of all
\* user_support entries) + total_owner_reward.
C1_Conservation == LeU(TotalDelegated + total_owner_reward, total_balance)

\* C2: a user or owner withdrawal whose settlement transfer is not confirmed
\* fails and leaves every ledger field (total_balance, total_owner_reward,
\* current_index, total_support, reward, user_support,
\* user_support_indexes) as it was before the call.  Stated for the calls
\* whose reply channel is dropped on a ledger whose total_balance covers
\* the amount, so that no arithmetic wraps.
C2_WithdrawRejectionKeepsLedger ==
    [][ (/\ last'.op \in {"user_withdraw", "owner_withdraw"}
         /\ last'.transfer # <<>>
         /\ last'.chain = "dropped"
         /\ total_balance >= last'.amount)
        => (last'.status # "Ok" /\ UNCHANGED ledger) ]_vars

\* C3: a vote whose settlement transfer is not confirmed fails and leaves
\* total_balance, total_support, user_support and user_support_indexes
\* unchanged; a vote with an invalid signature fails without requesting a
\* transfer and without changing any ledger field.
C3_VoteRejectionKeepsLedger ==
    [][ /\ (last'.op = "vote" /\ last'.signature /\ last'.chain # "confirmed")
            => /\ last'.status # "Ok"
               /\ UNCHANGED <<total_balance, total_support, user_support,
                              user_support_indexes>>
        /\ (last'.op = "vote" /\ ~last'.signature)
            => /\ last'.status = "Err"
               /\ last'.transfer = <<>>
               /\ UNCHANGED ledger ]_vars

\* a vote was refused by the settlement channel on a ledger that holds funds
C3_Witness ==
    /\ last.op = "vote" /\ last.signature /\ last.chain = "dropped"
    /\ last.status = "Err" /\ last.transfer # <<>>
    /\ total_balance > 0

\* C4: a single withdrawal call iterates over at most INDEX_MAX_DELTA
\* reward indexes, however far current_index is from from_index.
C4_BoundedCost ==
    last.op = "user_withdraw" => last.visited <= INDEX_MAX_DELTA

\* C5: a successful withdrawal returns Some((from_index + INDEX_MAX_DELTA,
\* balance)) exactly when from_index + INDEX_MAX_DELTA < current_index, and
\* None otherwise.
C5_OutcomeByMin ==
    (last.op = "user_withdraw" /\ last.status = "Ok")
    => /\ (last.ret # <<>>)
           <=> (last.from_index + INDEX_MAX_DELTA < current_index)
       /\ last.ret # <<>>
           => last.ret[1] = last.from_index + INDEX_MAX_DELTA

\* No withdrawal of either draft returns Some: end_index is the larger of
\* from_index + INDEX_MAX_DELTA and current_index, so `end_index <
\* current_index` is never true.  (This is why the continuation of C6 never
\* starts.)
NoContinuation == last.op = "user_withdraw" => last.ret = <<>>

\* C7: once the support recorded at (from_index, user) is fully withdrawn
\* (the entry is 0), a further withdrawal for the same from_index and user
\* fails, whatever the amount: it returns no success and pays nothing out.
C7_NoDoubleClaim ==
    [][ (/\ last'.op = "user_withdraw"
         /\ Has(user_support, Hasher_hash(last'.from_index, last'.user))
         /\ user_support[Hasher_hash(last'.from_index, last'.user)] = 0)
        => (/\ last'.status # "Ok"
            /\ balance' = balance
            /\ total_balance' = total_balance) ]_vars

\* the indexes get_support_indexes returns for an address (validator.rs:70-72)
get_support_indexes(address) ==
    IF Has(user_support_indexes, address)
    THEN {user_support_indexes[address][k] :
             k \in 1..Len(user_support_indexes[address])}
    ELSE {}

\* C8: for every address, get_support_indexes holds exactly the indexes e
\* with user_support[(e, address)] > 0.
C8_OpenIndexes ==
    \A a \in Users :
        get_support_indexes(a)
        = {e \in 0..current_index :
              /\ Has(user_support, Hasher_hash(e, a))
              /\ user_support[Hasher_hash(e, a)] > 0}

\* the total delegated stake recorded for the current index
RecordedTotal ==
    IF Has(total_support, current_index) THEN total_support[current_index] ELSE 0

\* C9: total_support[current_index] equals the sum of the user_support
\* entries; in particular a full withdrawal of amount decreases it by amount.
C9_TotalIsSumOfSupport == RecordedTotal = TotalDelegated

\* C10: for every index e and address a, user_support[(e, a)] <=
\* total_support[e].
C10_SupportWithinTotal ==
    \A a \in Users, e \in 0..current_index :
        Has(user_support, Hasher_hash(e, a))
        => /\ Has(total_support, e)
           /\ LeU(user_support[Hasher_hash(e, a)], total_support[e])

\* the value a map holds at k, 0 when it holds none
ValueOr0(m, k) == IF Has(m, k) THEN m[k] ELSE 0

\* C11: a vote whose signature is valid and whose transfer is confirmed
\* succeeds in every reachable state, the first vote on a new validator
\* included: it adds amount to total_support[current_index] (from the prior
\* total, or 0), to user_support[(current_index, user)] (from 0 when absent)
\* and to total_balance, and returns (current_index, the user's support).
C11_ConfirmedVoteSucceeds ==
    [][ (last'.op = "vote" /\ last'.signature /\ last'.chain = "confirmed")
        => LET h == hash_bits(current_index, last'.user)
           IN  /\ last'.status = "Ok"
               /\ total_balance' = total_balance + last'.amount
               /\ ValueOr0(total_support', current_index)
                  = ValueOr0(total_support, current_index) + last'.amount
               /\ ValueOr0(user_support', h)
                  = ValueOr0(user_support, h) + last'.amount
               /\ last'.ret = <<current_index, ValueOr0(user_support', h)>> ]_vars

\* C12: new_reward / append_reward succeeds in every reachable state, a
\* validator without votes included: each call increments current_index by
\* exactly 1 and sets total_support at the new index to the total at the old
\* one (0 if none); no other operation changes current_index.
C12_RewardAlwaysAdvances ==
    [][ IF last'.op \in {"new_reward", "append_reward"}
        THEN /\ last'.status = "Ok"
             /\ current_index' = current_index + 1
             /\ Has(total_support', current_index + 1)
             /\ total_support'[current_index + 1]
                = ValueOr0(total_support, current_index)
        ELSE current_index' = current_index ]_vars

\* C13: a reward r is split into the owner share VALIDATOR_SHARE * r and the
\* remainder r - owner share: the owner share is added to total_owner_reward,
\* the remainder is stored in reward[current_index + 1] and total_balance
\* grows by the full r.
C13_RewardSplit ==
    [][ last'.op \in {"new_reward", "append_reward"}
        => /\ total_owner_reward'
              = total_owner_reward + ValidatorShare(last'.amount)
           /\ Has(reward', current_index + 1)
           /\ reward'[current_index + 1]
              = last'.amount - ValidatorShare(last'.amount)
           /\ total_balance' = total_balance + last'.amount ]_vars

\* C14: a confirmed withdrawal of amount <= the support recorded at
\* (from_index, user), made while from_index + INDEX_MAX_DELTA >=
\* current_index, pays the user amount plus the reward of the visited
\* indexes (so at least amount), lowers total_balance by what it pays and
\* the delegated total by amount, and returns None.
C14_CaughtUpPayout ==
    [][ LET h == Hasher_hash(last'.from_index, last'.user)
        IN  (/\ last'.op = "user_withdraw"
             /\ last'.signature /\ last'.chain = "confirmed"
             /\ Has(user_support, h)
             /\ last'.amount > 0 /\ last'.amount <= user_support[h]
             /\ last'.from_index + INDEX_MAX_DELTA >= current_index)
            => /\ last'.status = "Ok" /\ last'.ret = <<>>
               /\ balance'[last'.user] >= balance[last'.user] + last'.amount
               /\ total_balance' - total_balance
                  = balance[last'.user] - balance'[last'.user]
               /\ TotalDelegated' = TotalDelegated - last'.amount ]_vars

\* C15: a withdrawal is rejected when no support is recorded at
\* (from_index, user) and when amount exceeds the recorded support (and on
\* an invalid signature, where the draft has one); in each case no ledger
\* field changes and nothing is paid out.
C15_PureRejection ==
    [][ LET h == Hasher_hash(last'.from_index, last'.user)
        IN  (/\ last'.op = "user_withdraw"
             /\ \/ ~last'.signature
                \/ ~Has(user_support, h)
                \/ ~LeU(last'.amount, user_support[h]))
            => /\ UNCHANGED ledger
               /\ balance' = balance
               /\ last'.transfer = <<>> ]_vars

\* C16: owner_withdraw_reward(amount) is rejected when amount >
\* total_owner_reward and on an invalid signature, changing nothing; on a
\* confirmed transfer it lowers total_owner_reward and total_balance by
\* exactly amount and changes no other ledger field; total_owner_reward is
\* lowered by nothing but a confirmed owner withdrawal.  Stated for the
\* calls that return.
C16_OwnerWithdraw ==
    [][ /\ (last'.op = "owner_withdraw"
            /\ (last'.amount > total_owner_reward \/ ~last'.signature))
           => /\ last'.status = "Err" /\ last'.transfer = <<>>
              /\ UNCHANGED ledger
        /\ (last'.op = "owner_withdraw"
            /\ last'.transfer # <<>> /\ last'.chain = "confirmed")
           => /\ last'.status = "Ok"
              /\ total_owner_reward' = total_owner_reward - last'.amount
              /\ total_balance' = total_balance - last'.amount
              /\ UNCHANGED <<current_index, total_support, reward,
                             user_support, user_support_indexes>>
        /\ (total_owner_reward' < total_owner_reward
            /\ last'.status # "Panic")
           => /\ last'.op = "owner_withdraw"
              /\ last'.chain = "confirmed" ]_vars

\* C17: in every state reached by votes and rewards, a withdrawal with a
\* valid signature, for a from_index at which the user has recorded support
\* and an amount within that support, finds total_support (and the reward it
\* reads) defined at every index it visits: it never ends on missing data.
C17_NoMissingEpochData ==
    [][ LET h == Hasher_hash(last'.from_index, last'.user)
        IN  (/\ last'.op = "user_withdraw" /\ last'.signature
             /\ Has(user_support, h)
             /\ LeU(last'.amount, user_support[h]))
            => last'.err \notin {"total_support.get", "reward.get"} ]_vars

\* C18: while a vote or a withdrawal waits for the chain's answer, no other
\* operation of the same validator reads or writes the ledger: the only
\* step taken is the return of that very call, so the read-modify-write
\* sequences of two operations never interleave.
C18_SingleWriter ==
    [][ blocked
        => /\ ~blocked'
           /\ last'.op = last.op /\ last'.user = last.user
           /\ last'.from_index = last.from_index
           /\ last'.amount = last.amount
           /\ last'.transfer = last.transfer
           /\ last'.chain \in TransferOutcomes ]_vars

\* an owner withdrawal waits for the chain with its amount already deducted
C18_Witness ==
    /\ blocked /\ last.op = "owner_withdraw"
    /\ last.amount > 0 /\ total_owner_reward > 0

\* C20: in the single-slot draft the only order accepted for a user is vote,
\* send_rewards, unvote: vote is rejected while the user has an open Vote
\* (amount > 0 or reward not taken), send_rewards succeeds only on a Vote
\* whose reward is not taken and marks it taken (so once per vote), unvote
\* succeeds only after send_rewards, removes the Vote and returns exactly
\* the voted amount; a user holds at most one open Vote.
C20_SlotLifecycle ==
    [][ LET u == last'.user
            accepted == last'.status = "Ok"
        IN  /\ (last'.op = "vote" /\ Has(votes, u)
                /\ (votes[u].amount > 0 \/ ~votes[u].reward_taken))
               => ~accepted /\ UNCHANGED <<slot, total_balance, balance>>
            /\ (last'.op = "vote" /\ accepted)
               => /\ ~Has(votes, u)
                  /\ Has(votes', u) /\ ~votes'[u].reward_taken
            /\ (last'.op = "send_rewards" /\ accepted)
               => /\ Has(votes, u) /\ ~votes[u].reward_taken
                  /\ Has(votes', u) /\ votes'[u].reward_taken
                  /\ votes'[u].amount = votes[u].amount
            /\ (last'.op = "unvote" /\ accepted)
               => /\ Has(votes, u) /\ votes[u].reward_taken
                  /\ ~Has(votes', u)
                  /\ balance'[u] = balance[u] + votes[u].amount ]_vars

\* a user has voted, taken a reward above 0 and unvoted
C20_Witness ==
    /\ last.op = "unvote" /\ last.status = "Ok"
    /\ ~Has(votes, last.user)
    /\ balance[last.user] > InitialBalance

\* C21: in every state of the single-slot draft reached through vote,
\* append_reward, send_rewards and unvote, the votes map holds no Vote with
\* amount = 0 and reward_taken = false.
C21_NoZeroUnclaimedVote ==
    \A u \in DOMAIN votes : ~(votes[u].amount = 0 /\ ~votes[u].reward_taken)

\* C22: distinct (index, address) pairs address distinct user_support
\* entries: a vote recorded for (current_index, user) changes the support
\* read (and so withdrawable) for no other pair (e, a).
C22_SupportIsolation ==
    [][ last'.op = "vote"
        => \A a \in Users, e \in 0..current_index :
              <<e, a>> # <<current_index, last'.user>>
              => ValueOr0(user_support', Hasher_hash(e, a))
                 = ValueOr0(user_support, Hasher_hash(e, a)) ]_vars

\* C23: no withdrawal step subtracts more from total_balance than it
\* holds: no user or owner withdrawal ends on an arithmetic overflow, and
\* none takes a total_balance that had not wrapped below zero.
C23_SolventWithdrawals ==
    [][ last'.op \in {"user_withdraw", "owner_withdraw"}
        => /\ ~(last'.status = "Panic" /\ last'.err = "overflow")
           /\ total_balance >= 0 => total_balance' >= 0 ]_vars

\* C24: a user is paid a share of the rewards appended while their support
\* was open, and of no other: a withdrawal of amount within the support
\* recorded at from_index that pays out after rewards were appended since
\* from_index pays the amount plus a share of those rewards, so more than
\* the amount; with no reward appended since, it pays exactly the amount.
C24_RewardAttribution ==
    [][ LET u == last'.user
            h == Hasher_hash(last'.from_index, u)
            paid == balance'[u] - balance[u]
        IN  (/\ last'.op = "user_withdraw" /\ last'.status = "Ok"
             /\ Has(user_support, h)
             /\ last'.amount > 0 /\ last'.amount <= user_support[h]
             /\ paid # 0)
            => IF current_index > last'.from_index
               THEN paid > last'.amount
               ELSE paid = last'.amount ]_vars

\* the amount a call has asked the chain to transfer to the owner
requested_for_owner(call) ==
    IF call.op = "owner_withdraw" /\ call.transfer # <<>>
    THEN call.transfer[1].amount ELSE 0

\* C25: the transfers owner_withdraw_reward requests for the owner never
\* sum to more than the owner share credited by new_reward, and
\* total_owner_reward never goes below zero: every amount requested for the
\* owner has been taken out of total_owner_reward by the same call, nothing
\* but new_reward raises total_owner_reward, and it stays at or above zero.
C25_OwnerPayoutBound ==
    [][ /\ total_owner_reward >= 0 /\ total_owner_reward' >= 0
        /\ IF total_owner_reward' > total_owner_reward
           THEN /\ last'.op = "new_reward"
                /\ total_owner_reward'
                   = total_owner_reward + ValidatorShare(last'.amount)
                /\ requested_for_owner(last') = 0
           ELSE requested_for_owner(last')
                <= total_owner_reward - total_owner_reward' ]_vars

\* the owner has been paid the whole owner share credited so far
C25_Witness ==
    /\ last.op = "owner_withdraw" /\ last.status = "Ok"
    /\ requested_for_owner(last) > 0
    /\ total_owner_reward = 0

====
